---- MODULE Spec2Model ----
(***************************************************************************)
(* OCPP 2.0.1 simulators of yuu999/ocpp-gw (simulators/oss-csms/python-ocpp)*)
(*                                                                         *)
(*   charge_point.py        ChargePointEmulator: connectors, transactions, *)
(*                          metering task, remote start/stop handlers      *)
(*   simple_charge_point.py send_message_with_retry over one websocket     *)
(*   charging_simulator.py  ChargingStationSimulator                       *)
(*   simple_csms.py         SimpleCSMS.handle_connection / handle_message  *)
(***************************************************************************)
EXTENDS Integers, Sequences, FiniteSets, TLC

(* ---------------------------------------------------------------- bounds *)
\* largest value of int(time.time()) the clock reaches, counted from the
\* second in which the charge point starts
MaxTime == 0
\* cap on one connector's energy counter (in units of one metering delta)
MaxMeter == 1
\* number of transaction ids the charge point allocates
MaxTransactions == 2
\* number of created tasks that have not run yet
MaxTasks == 1
\* number of created tasks that have not run yet in the exploration of the
\* task queue (SpecQueue)
MaxQueued == 2
\* the clock and the number of transaction ids in the deeper exploration
\* of the charge point (SpecDeep)
DeepTime == 2
DeepTransactions == 3
\* the value up to which a station record of the CSMS counts its frames
MaxMessages == 2
\* the number of waits of simple_charge_point.py that end in TimeoutError
MaxTimeouts == 3
\* the iterations of the metering loop of the simulator's charging session
MeterIterations == 2
\* the number of Heartbeat calls the simulator's heartbeat task begins
MaxHeartbeats == 1
\* the number of Heartbeat calls the heartbeat task begins in the
\* exploration of its progress (SpecHeartbeat)
LiveHeartbeats == 2
\* the number of entries in each log of the ocpp-library CSMS
MaxLogged == 2

(* ------------------------------------------------- charge_point.py state *)
VARIABLES
    connectors,     \* self.connectors: connector id -> [status, transaction_id]
    transactions,   \* self.transactions: transaction id -> record
    meter_values,   \* self.meter_values: connector id -> energy counter
    now,            \* the latest reading of the clock
    tasks,          \* coroutines made by asyncio.create_task, in creation order
    simPc,          \* where the _simulate_charging task is suspended
    reply,          \* the last remote request and the handler's answer to it
    events_sent,    \* the TransactionEvent calls sent so far: event and
                    \* transaction id of each
    cp_ws           \* the websocket of main(): "open", or "closed" once
                    \* ConnectionClosed has reached main()

cpVars == <<connectors, transactions, meter_values, now, tasks, simPc, reply,
            events_sent, cp_ws>>

\* the keys of self.connectors and self.meter_values
ConnectorIds == {1, 2}
\* connector ids a RequestStartTransaction may name (3 is not configured)
RequestedConnectorIds == {1, 2, 3}
\* None
NoTx == <<>>
\* f"tx_{int(time.time())}_{connector_id}"
TxId(t, c) == <<t, c>>
\* a transaction id the charge point never allocates
UnknownTx == <<-1, 0>>
\* the transaction ids a RequestStopTransaction names: every id the charge
\* point has allocated so far, and one it has not
TxIds == (DOMAIN transactions) \cup {UnknownTx}
\* random.uniform(0.1, 0.5), in multiples of the smallest step
Deltas == {1, 2}
\* what time.time() / datetime.utcnow() can return up to second maxTime:
\* never less than the reading before
ClockReadings(maxTime) == now..maxTime

\* a remote request and its answer: the handler that ran, the connector id or
\* transaction id the request named, the status of the result (or the
\* exception raised) and the transaction id in the result
Reply(op, conn, tx, status, transaction_id) ==
    [op |-> op, conn |-> conn, tx |-> tx, status |-> status,
     transaction_id |-> transaction_id]

NoReply == Reply("none", 0, NoTx, "none", NoTx)

InitCP ==
    /\ connectors = [c \in ConnectorIds |->
                        [status |-> "Available", transaction_id |-> NoTx]]
    /\ transactions = <<>>
    /\ meter_values = [c \in ConnectorIds |-> 0]
    /\ now = 0
    /\ tasks = <<>>
    /\ simPc = "sleep"
    /\ reply = NoReply
    /\ events_sent = {}
    /\ cp_ws = "open"

\* dict item assignment d[k] = v
DictPut(d, k, v) == [x \in (DOMAIN d) \cup {k} |-> IF x = k THEN v ELSE d[x]]

\* a start handler that refuses only a connector out of service
Mut_StartRefused(connector_id) ==
    connectors[connector_id].status = "Unavailable"

\* charge_point.py:192  the guard of on_request_start_transaction
StartRefused(connector_id) ==
    connectors[connector_id].status # "Available"

\* an accepted start that marks the connector but forgets its transaction id
Mut_StartedConnector(connector, transaction_id) ==
    [connector EXCEPT !.status = "Occupied"]

\* charge_point.py:199-200  the connector entry after an accepted start
\* (ConnectorStatus.occupied)
StartedConnector(connector, transaction_id) ==
    [connector EXCEPT !.transaction_id = transaction_id,
                      !.status = "Occupied"]

\* a record that names connector 1 whatever connector was started
Mut_NewTransaction(connector_id, t) ==
    [connector_id |-> 1,
     start_time   |-> t,
     meter_start  |-> meter_values[connector_id],
     stop_time    |-> -1,
     meter_stop   |-> -1]

\* charge_point.py:202-207  the record stored for a new transaction
NewTransaction(connector_id, t) ==
    [connector_id |-> connector_id,
     start_time   |-> t,
     meter_start  |-> meter_values[connector_id],
     stop_time    |-> -1,
     meter_stop   |-> -1]

\* a created task that reports the opposite event
Mut_TransactionEventTask(event, transaction_id, connector_id) ==
    [event |-> IF event = "Started" THEN "Ended" ELSE "Started",
     tx |-> transaction_id, connector_id |-> connector_id]

\* asyncio.create_task(self._send_transaction_event(event, tx, connector))
TransactionEventTask(event, transaction_id, connector_id) ==
    [event |-> event, tx |-> transaction_id, connector_id |-> connector_id]

\* @on("RequestStartTransaction"); t is the clock reading of line 198
on_request_start_transaction(connector_id, t) ==
    IF connector_id \notin DOMAIN connectors
    THEN \* self.connectors[connector_id] raises KeyError
         /\ reply' = Reply("start", connector_id, NoTx, "KeyError", NoTx)
         /\ UNCHANGED <<connectors, transactions, meter_values, now, tasks,
                        simPc, events_sent, cp_ws>>
    ELSE IF StartRefused(connector_id)
    THEN /\ reply' = Reply("start", connector_id, NoTx, "Rejected", NoTx)
         /\ UNCHANGED <<connectors, transactions, meter_values, now, tasks,
                        simPc, events_sent, cp_ws>>
    ELSE LET transaction_id == TxId(t, connector_id) IN
         /\ now' = t
         /\ connectors' = [connectors EXCEPT ![connector_id] =
                 StartedConnector(@, transaction_id)]
         /\ transactions' = DictPut(transactions, transaction_id,
                                    NewTransaction(connector_id, t))
         /\ tasks' = Append(tasks, TransactionEventTask("Started",
                                       transaction_id, connector_id))
         /\ reply' = Reply("start", connector_id, NoTx, "Accepted",
                           transaction_id)
         /\ UNCHANGED <<meter_values, simPc, events_sent, cp_ws>>

\* charge_point.py:230  the guard of on_request_stop_transaction
StopRefused(transaction_id) ==
    transaction_id \notin DOMAIN transactions

\* an accepted stop that frees the connector but keeps its transaction id
Mut_StoppedConnector(connector) ==
    [connector EXCEPT !.status = "Available"]

\* charge_point.py:239-240  the connector entry after an accepted stop
StoppedConnector(connector) ==
    [connector EXCEPT !.transaction_id = NoTx,
                      !.status = "Available"]

\* a stop that stores the energy consumed instead of the counter reading
Mut_StoppedTransaction(transaction, connector_id, t) ==
    [transaction EXCEPT !.stop_time = t,
                        !.meter_stop = meter_values[connector_id]
                                         - transaction.meter_start]

\* charge_point.py:242-243  the fields written when a transaction is stopped
StoppedTransaction(transaction, connector_id, t) ==
    [transaction EXCEPT !.stop_time = t,
                        !.meter_stop = meter_values[connector_id]]

\* @on("RequestStopTransaction"); t is the clock reading of line 242
on_request_stop_transaction(transaction_id, t) ==
    IF StopRefused(transaction_id)
    THEN /\ reply' = Reply("stop", 0, transaction_id, "Rejected", NoTx)
         /\ UNCHANGED <<connectors, transactions, meter_values, now, tasks,
                        simPc, events_sent, cp_ws>>
    ELSE LET transaction  == transactions[transaction_id]
             connector_id == transaction.connector_id IN
         /\ now' = t
         /\ connectors' = [connectors EXCEPT ![connector_id] =
                 StoppedConnector(@)]
         /\ transactions' = [transactions EXCEPT ![transaction_id] =
                 StoppedTransaction(transaction, connector_id, t)]
         /\ tasks' = Append(tasks, TransactionEventTask("Ended",
                                       transaction_id, connector_id))
         /\ reply' = Reply("stop", 0, transaction_id, "Accepted", NoTx)
         /\ UNCHANGED <<meter_values, simPc, events_sent, cp_ws>>

\* an event loop that runs the task created last first
Mut_Scheduled(queue) ==
    [n \in DOMAIN queue |-> queue[Len(queue) + 1 - n]]

\* charge_point.py:210, 246  the order in which the event loop runs the
\* tasks made by asyncio.create_task: the order of their creation
Scheduled(queue) == queue

\* charge_point.py:260-282  the request a task builds when it runs: the
\* energy value is the connector's counter at that moment (line 275)
TransactionEventRequest(task) ==
    [event  |-> task.event,
     tx     |-> task.tx,
     evse   |-> task.connector_id,
     energy |-> meter_values[task.connector_id]]

\* _send_transaction_event: the oldest created task runs, builds its request
\* from the state it finds and sends it with self.call; the response is
\* discarded
send_transaction_event ==
    /\ tasks # <<>>
    /\ tasks' = Tail(Scheduled(tasks))
    /\ LET request == TransactionEventRequest(Head(Scheduled(tasks)))
       IN  events_sent' = events_sent \cup
                             {[event |-> request.event, tx |-> request.tx]}
    /\ UNCHANGED <<connectors, transactions, meter_values, now, simPc, reply,
                   cp_ws>>

\* a metering task that meters every connector
Mut_Metered(connector_id) == connector_id \in ConnectorIds

\* charge_point.py:139  a connector is metered while it has a transaction id
Metered(connector_id) ==
    connectors[connector_id].transaction_id # NoTx

\* a tick that advances the counter of every connector
Mut_MeterConnector(connector_id) ==
    \E d \in Deltas :
       meter_values' = [c \in ConnectorIds |-> meter_values[c] + d]

\* charge_point.py:141-144  the body of the for loop for a metered connector:
\* advance the energy counter and send MeterValues
MeterConnector(connector_id) ==
    \E d \in Deltas :
       meter_values' = [meter_values EXCEPT ![connector_id] = @ + d]

\* _simulate_charging.  The task is suspended in asyncio.sleep(5)
\* (simPc = "sleep") or in the await of connector 1's MeterValues call
\* (simPc = "call1"); a connector that is not metered is passed without
\* suspending.
simulate_charging ==
    /\ \/ /\ simPc = "sleep"
          /\ Metered(1)
          /\ MeterConnector(1)
          /\ simPc' = "call1"
       \/ /\ simPc = "sleep"
          /\ ~Metered(1)
          /\ Metered(2)
          /\ MeterConnector(2)
          /\ simPc' = "sleep"
       \/ /\ simPc = "call1"
          /\ IF Metered(2)
             THEN MeterConnector(2)
             ELSE UNCHANGED meter_values
          /\ simPc' = "sleep"
    /\ UNCHANGED <<connectors, transactions, now, tasks, reply, events_sent,
                   cp_ws>>

\* charge_point.py:376-381  the connection is lost: start() raises
\* ConnectionClosed, main() logs it, breaks out of its loop and returns,
\* and asyncio.run cancels the metering task and the tasks that have not
\* run; the connectors are left as they are
main_connection_closed ==
    /\ cp_ws = "open"
    /\ cp_ws' = "closed"
    /\ simPc' = "cancelled"
    /\ tasks' = <<>>
    /\ UNCHANGED <<connectors, transactions, meter_values, now, reply,
                   events_sent>>

(* ------------------------------------------------------------ JSON text *)
\* a value as json.loads returns it: t is the Python type of the value
\* ("int", "str", "dict", "list", "NoneType") and v its content
J(t, v) == [t |-> t, v |-> v]
JInt(n) == J("int", n)
JStr(s) == J("str", s)
JDict(d) == J("dict", d)
JList(l) == J("list", l)
JNone == J("NoneType", 0)
\* {}
EmptyDict == JDict(<<>>)
\* text that is not JSON: json.loads raises JSONDecodeError
NotJson == J("invalid", 0)

\* bool(x)
Truthy(x) ==
    CASE x.t = "int"  -> x.v # 0
      [] x.t = "str"  -> x.v # ""
      [] x.t = "dict" -> DOMAIN x.v # {}
      [] x.t = "list" -> x.v # <<>>
      [] OTHER        -> FALSE

\* len(x) raises TypeError unless x is a string, a dict or a list
HasLen(x) == x.t \in {"str", "dict", "list"}

\* len(x)
PyLen(x) ==
    IF x.t = "dict" THEN Cardinality(DOMAIN x.v) ELSE Len(x.v)

\* x[i] for an integer i raises KeyError on a dict (its keys are strings)
HasItem(x, i) == x.t # "dict"

\* x[i] of a list, or of a string: a string of one character
Item(x, i) ==
    IF x.t = "list" THEN x.v[i + 1] ELSE JStr("c")

\* payload.get(key, default) of a dict
Get(payload, key, default) ==
    IF key \in DOMAIN payload.v THEN payload.v[key] ELSE default

\* [2, message_id, action, payload]
Call(message_id, action, payload) ==
    JList(<<JInt(2), JStr(message_id), JStr(action), payload>>)

\* [3, message_id, payload]
CallResult(message_id, payload) ==
    JList(<<JInt(3), message_id, JDict(payload)>>)

\* the message type, the identifier and the payload of a frame of three or
\* more elements
FrameType(frame) == frame.v[1]
FrameId(frame) == frame.v[2]
FramePayload(frame) == frame.v[3]

(* --------------------------------------------------- simple_csms.py state *)
VARIABLES
    charging_stations,  \* self.charging_stations: station id -> dict
    connections,        \* self.connections: the websockets being served
    exchange            \* the last frame received and what was done with it

csmsVars == <<charging_stations, connections, exchange>>

\* the websockets that connect to the CSMS
ConnectionIds == {1, 2}

\* simple_csms.py:127-129  path.split('/')[-1] of each websocket: both
\* connect with the path /CP001
StationIdOf(websocket) == <<"CP001", "CP001">>[websocket]

\* a received frame, the frames sent in reply and the handle_* method that ran
Exchange(websocket, message, sent, handler) ==
    [websocket |-> websocket, message |-> message, sent |-> sent,
     handler |-> handler]

NoExchange == Exchange(0, JNone, <<>>, "none")

\* SimpleCSMS.__init__
InitCsms ==
    /\ charging_stations = <<>>
    /\ connections = {}
    /\ exchange = NoExchange

\* what handling one frame leaves behind: self.charging_stations, the frame
\* to send and the handle_* method that ran
Outcome(stations, response, handler) ==
    [stations |-> stations, response |-> response, handler |-> handler]

\* simple_csms.py:184, 190, 213, 228  [3, "error", {"errorCode": code}]
ErrorResponse(code) ==
    CallResult(JStr("error"), [errorCode |-> code])

\* simple_csms.py:135-139  connection_info
ConnectionInfo ==
    [connected_at |-> "time", last_seen |-> "time", message_count |-> 0]

\* simple_csms.py:260-265  the dict stored by handle_boot_notification
BootRecord(payload) ==
    [charging_station |-> Get(payload, "charging_station", <<>>),
     reason           |-> Get(payload, "reason", "Unknown"),
     connected_at     |-> "time",
     status           |-> "connected"]

\* a handler that stores the record and answers the registration with
\* Pending
Mut_handle_boot_notification(stations, charging_station_id, message_id, payload) ==
    Outcome(DictPut(stations, charging_station_id,
                    [status |-> "connected"]),
            CallResult(message_id, [status |-> "Pending",
                                    currentTime |-> "time",
                                    interval |-> 300]),
            "handle_boot_notification")

\* simple_csms.py:255-273; payload.get raises AttributeError unless the
\* payload is a dict, which handle_call turns into InternalError
handle_boot_notification(stations, charging_station_id, message_id, payload) ==
    IF payload.t # "dict"
    THEN Outcome(stations,
                 CallResult(message_id, [errorCode |-> "InternalError"]),
                 "handle_boot_notification")
    ELSE Outcome(DictPut(stations, charging_station_id, BootRecord(payload)),
                 CallResult(message_id, [status |-> "Accepted",
                                         currentTime |-> "time",
                                         interval |-> 300]),
                 "handle_boot_notification")

\* simple_csms.py:286-290  the entry stored for a connector
ConnectorEntry(payload) ==
    [status    |-> Get(payload, "connectorStatus", "Unknown"),
     evse_id   |-> Get(payload, "evseId", 0),
     timestamp |-> Get(payload, "timestamp", "time")]

\* simple_csms.py:275-294; the station dict and its "connectors" dict are
\* created (279-283) before payload.get can raise
handle_status_notification(stations, charging_station_id, message_id, payload) ==
    LET s1 == IF charging_station_id \notin DOMAIN stations
              THEN DictPut(stations, charging_station_id, <<>>)
              ELSE stations
        s2 == IF "connectors" \notin DOMAIN s1[charging_station_id]
              THEN [s1 EXCEPT ![charging_station_id] =
                                  DictPut(@, "connectors", <<>>)]
              ELSE s1
    IN  IF payload.t # "dict"
        THEN Outcome(s2,
                     CallResult(message_id, [errorCode |-> "InternalError"]),
                     "handle_status_notification")
        ELSE Outcome([s2 EXCEPT ![charging_station_id] =
                        DictPut(@, "connectors",
                                DictPut(@["connectors"],
                                        Get(payload, "connectorId", 0),
                                        ConnectorEntry(payload)))],
                     CallResult(message_id, <<>>),
                     "handle_status_notification")

\* simple_csms.py:296-306
handle_authorize(stations, charging_station_id, message_id, payload) ==
    Outcome(stations,
            CallResult(message_id, [idTokenInfo |-> [status |-> "Accepted"]]),
            "handle_authorize")

\* simple_csms.py:308-324
handle_transaction_event(stations, charging_station_id, message_id, payload) ==
    Outcome(stations,
            CallResult(message_id,
                       [totalCost |-> 0, chargingPriority |-> 0,
                        idTokenInfo |-> [status |-> "Accepted"],
                        updatedPersonalMessage |->
                            [format |-> "UTF8", code |-> "OK"]]),
            "handle_transaction_event")

\* simple_csms.py:326-332
handle_meter_values(stations, charging_station_id, message_id, payload) ==
    Outcome(stations, CallResult(message_id, <<>>), "handle_meter_values")

\* simple_csms.py:334-342
handle_heartbeat(stations, charging_station_id, message_id, payload) ==
    Outcome(stations, CallResult(message_id, [currentTime |-> "time"]),
            "handle_heartbeat")

\* simple_csms.py:344-352
handle_data_transfer(stations, charging_station_id, message_id, payload) ==
    Outcome(stations, CallResult(message_id, [status |-> "Accepted"]),
            "handle_data_transfer")

\* simple_csms.py:230-253
handle_call(stations, charging_station_id, message_id, action, payload) ==
    CASE action = JStr("BootNotification") ->
            handle_boot_notification(stations, charging_station_id,
                                     message_id, payload)
      [] action = JStr("StatusNotification") ->
            handle_status_notification(stations, charging_station_id,
                                       message_id, payload)
      [] action = JStr("Authorize") ->
            handle_authorize(stations, charging_station_id, message_id,
                             payload)
      [] action = JStr("TransactionEvent") ->
            handle_transaction_event(stations, charging_station_id,
                                     message_id, payload)
      [] action = JStr("MeterValues") ->
            handle_meter_values(stations, charging_station_id, message_id,
                                payload)
      [] action = JStr("Heartbeat") ->
            handle_heartbeat(stations, charging_station_id, message_id,
                             payload)
      [] action = JStr("DataTransfer") ->
            handle_data_transfer(stations, charging_station_id, message_id,
                                 payload)
      [] OTHER ->
            Outcome(stations,
                    CallResult(message_id, [errorCode |-> "NotSupported"]),
                    "none")

\* a dispatcher that returns None for a frame that is not a Call
Mut_handle_message(stations, charging_station_id, message) ==
    IF message.t # "list" \/ Len(message.v) < 3
    THEN Outcome(stations, ErrorResponse("FormatViolation"), "none")
    ELSE IF message.v[1] = JInt(2)
         THEN handle_call(stations, charging_station_id, message.v[2],
                          message.v[3],
                          IF Len(message.v) > 3 THEN message.v[4]
                                                ELSE EmptyDict)
         ELSE Outcome(stations, JNone, "none")

\* simple_csms.py:208-228; nothing in the try block raises once the message
\* is a list of three or more elements
handle_message(stations, charging_station_id, message) ==
    IF message.t # "list" \/ Len(message.v) < 3
    THEN Outcome(stations, ErrorResponse("FormatViolation"), "none")
    ELSE LET message_type_id == message.v[1]
             message_id      == message.v[2]
             action          == message.v[3]
             payload         == SubSeq(message.v, 4, Len(message.v))
         IN  IF message_type_id = JInt(2)
             THEN handle_call(stations, charging_station_id, message_id,
                              action,
                              IF payload # <<>> THEN payload[1]
                                                ELSE EmptyDict)
             ELSE Outcome(stations,
                          CallResult(message_id,
                                     [errorCode |-> "NotSupported"]),
                          "none")

\* simple_csms.py:165-167  last_seen is written before message_count is
\* read; the dict stored by handle_boot_notification has no message_count
CountsMessages(stations, charging_station_id) ==
    "message_count" \in DOMAIN stations[charging_station_id]

\* simple_csms.py:150-192  the body of the receive loop for one frame
on_message(stations, charging_station_id, message) ==
    IF message = NotJson
    THEN \* json.loads raises JSONDecodeError (181-186)
         Outcome(stations, ErrorResponse("FormatViolation"), "none")
    ELSE IF \/ ~HasLen(message)
            \/ PyLen(message) > 2 /\ ~HasItem(message, 2)
    THEN \* len(data) or data[2] raises (187-192)
         Outcome(stations, ErrorResponse("InternalError"), "none")
    ELSE LET payload == IF PyLen(message) > 3 THEN Item(message, 3)
                                              ELSE EmptyDict
         IN
         IF Truthy(payload) /\ payload.t # "dict"
         THEN \* print_message_exchange: payload.items() raises (97-99)
              Outcome(stations, ErrorResponse("InternalError"), "none")
         ELSE IF charging_station_id \notin DOMAIN stations
         THEN handle_message(stations, charging_station_id, message)
         ELSE LET seen == [stations EXCEPT ![charging_station_id] =
                              DictPut(@, "last_seen", "time")]
              IN  IF ~CountsMessages(seen, charging_station_id)
                  THEN \* ['message_count'] += 1 raises KeyError
                       Outcome(seen, ErrorResponse("InternalError"), "none")
                  ELSE handle_message(
                         [seen EXCEPT ![charging_station_id] =
                             DictPut(@, "message_count",
                                     @["message_count"] + 1)],
                         charging_station_id, message)

\* dict without the key k
DictDel(d, k) == [x \in (DOMAIN d) \ {k} |-> d[x]]

\* simple_csms.py:124-146  handle_connection up to the receive loop
connection_opened(websocket) ==
    /\ websocket \notin connections
    /\ charging_stations' = DictPut(charging_stations,
                                    StationIdOf(websocket), ConnectionInfo)
    /\ connections' = connections \cup {websocket}
    /\ UNCHANGED exchange

\* simple_csms.py:171-180, 184-186, 190-192  the frames sent for a response:
\* `if response:` sends nothing for None
Replied(response) ==
    IF Truthy(response) THEN <<response>> ELSE <<>>

\* simple_csms.py:149-192  one iteration of the receive loop: the frame is
\* handled and the response sent on the same websocket
message_received(websocket, message) ==
    LET done == on_message(charging_stations, StationIdOf(websocket), message)
    IN  /\ websocket \in connections
        /\ charging_stations' = done.stations
        /\ exchange' = Exchange(websocket, message, Replied(done.response),
                                done.handler)
        /\ UNCHANGED connections

\* a finally block that discards the websocket and keeps the station's
\* record
Mut_connection_closed(websocket) ==
    /\ websocket \in connections
    /\ connections' = connections \ {websocket}
    /\ UNCHANGED <<charging_stations, exchange>>

\* simple_csms.py:193-206  the websocket closes: the finally block
connection_closed(websocket) ==
    /\ websocket \in connections
    /\ connections' = connections \ {websocket}
    /\ charging_stations' =
          IF StationIdOf(websocket) \in DOMAIN charging_stations
          THEN DictDel(charging_stations, StationIdOf(websocket))
          ELSE charging_stations
    /\ UNCHANGED exchange

(* ------------------------------- the station's websocket to the simple CSMS *)
VARIABLES
    program,    \* the station program that runs: "none" before one is started
    ws,         \* the station's websocket: "none", "open", "ClosedOK", "ClosedError"
    uuids,      \* the number of uuid.uuid4() calls made so far
    wire,       \* every frame the station has put on the wire, in order, and
                \* what became of the wait for its response
    replies,    \* every frame the CSMS has sent to the station, in order:
                \* replies[i] is the response to wire[i]
    nread,      \* the number of replies ws.recv() has returned
    delivered   \* for every frame ws.recv() returned: the transmission that
                \* was waiting and the transmission the frame responds to

linkVars == <<program, ws, uuids, wire, replies, nread, delivered>>

\* the websocket of the station among those the CSMS serves
StationWebsocket == 1

InitLink ==
    /\ program = "none"
    /\ ws = "none"
    /\ uuids = 0
    /\ wire = <<>>
    /\ replies = <<>>
    /\ nread = 0
    /\ delivered = <<>>

\* an identifier generator that returns the same value on every call
Mut_uuid4 == ToString(1)

\* str(uuid.uuid4()): an identifier different from all those made before
uuid4 == ToString(uuids + 1)

\* simple_charge_point.py:22-23, charging_simulator.py:40-43
call_msg(action, payload) == Call(uuid4, action, payload)

\* a frame on the wire; state is "pending" while the sender waits, or has
\* never waited, for its response
Transmission(frame) == [frame |-> frame, state |-> "pending"]

\* the default of the parameter max_retries
max_retries == 3

\* websocket.send / ws.send on an open websocket
Send(frame) == wire' = Append(wire, Transmission(frame))

\* the CSMS notices that the station's websocket has closed
PeerCloses ==
    IF StationWebsocket \in connections
    THEN connection_closed(StationWebsocket)
    ELSE UNCHANGED csmsVars

\* the CSMS handles the oldest frame it has not handled and sends its response
CsmsServes ==
    /\ Len(replies) < Len(wire)
    /\ message_received(StationWebsocket, wire[Len(replies) + 1].frame)
    /\ replies' = Append(replies, exchange'.sent[1])
    /\ UNCHANGED <<program, ws, uuids, wire, nread, delivered>>

(* --------------------------------------------------- simple_charge_point.py *)
VARIABLES
    main_task   \* main(): where it is suspended (pc), the index of the call
                \* it is making, the attempt of send_message_with_retry and
                \* the message being sent

\* no message
NoMessage == JNone

MainTask(pc, call, attempt, message) ==
    [pc |-> pc, call |-> call, attempt |-> attempt, message |-> message]

InitMain == main_task = MainTask("off", 0, 0, NoMessage)

\* simple_charge_point.py:60-94  the actions of the calls of main(), in order
MainCalls ==
    <<"BootNotification", "StatusNotification",
      "Heartbeat", "MeterValues", "Heartbeat", "MeterValues",
      "Heartbeat", "MeterValues">>

\* simple_charge_point.py:52-58, 64-69, 78, 83-93  the payload of each call
MainPayload(action) ==
    CASE action = "BootNotification" ->
            JDict([chargingStation |-> [serialNumber |-> "CP001",
                                        model |-> "Test CP",
                                        vendorName |-> "TestVendor"],
                   reason |-> "PowerUp"])
      [] action = "StatusNotification" ->
            JDict([timestamp |-> "time", connectorStatus |-> "Available",
                   evseId |-> 1, connectorId |-> 1])
      [] action = "Heartbeat" -> EmptyDict
      [] action = "MeterValues" ->
            JDict([evseId |-> 1, meterValue |-> "sampledValue"])

\* main() leaves the async with block: the websocket is closed
MainLeaves ==
    /\ ws' = IF ws = "open" THEN "ClosedOK" ELSE ws
    /\ PeerCloses

\* simple_charge_point.py:99-104  an exception reaches main(): sys.exit(1)
MainExits ==
    /\ main_task' = [main_task EXCEPT !.pc = "exit"]
    /\ MainLeaves

\* a retry loop that never gives up: every failure is followed by another
\* attempt
Mut_AttemptFailed(e) ==
    /\ main_task' = [main_task EXCEPT !.pc = "send", !.attempt = @ + 1]
    /\ UNCHANGED ws
    /\ UNCHANGED csmsVars

\* simple_charge_point.py:33-44  an attempt has failed with exception e:
\* ConnectionClosedError and the failure of the last attempt are raised to
\* main(), any other failure is followed by sleep(1) and the next attempt
AttemptFailed(e) ==
    IF e = "ConnectionClosedError" \/ main_task.attempt = max_retries - 1
    THEN MainExits
    ELSE /\ main_task' = [main_task EXCEPT !.pc = "send", !.attempt = @ + 1]
         /\ UNCHANGED ws
         /\ UNCHANGED csmsVars

\* the exception ws.send and ws.recv raise on a closed websocket
ClosedException ==
    IF ws = "ClosedError" THEN "ConnectionClosedError" ELSE "ConnectionClosedOK"

\* simple_charge_point.py:46-60  main() connects and makes its first call
main_start ==
    /\ program = "none"
    /\ program' = "simple_charge_point"
    /\ ws' = "open"
    /\ connection_opened(StationWebsocket)
    /\ main_task' = MainTask("send", 1, 0,
                             call_msg(MainCalls[1], MainPayload(MainCalls[1])))
    /\ uuids' = uuids + 1
    /\ UNCHANGED <<wire, replies, nread, delivered>>

\* simple_charge_point.py:29  await ws.send(json.dumps(message))
main_send ==
    /\ main_task.pc = "send"
    /\ IF ws = "open"
       THEN /\ Send(main_task.message)
            /\ main_task' = [main_task EXCEPT !.pc = "recv"]
            /\ UNCHANGED ws
            /\ UNCHANGED csmsVars
       ELSE /\ AttemptFailed(ClosedException)
            /\ UNCHANGED wire
    /\ UNCHANGED <<program, uuids, replies, nread, delivered>>

\* send_message_with_retry has returned: main() makes its next call, or
\* ends after the last one
MainProceeds ==
    IF main_task.call = Len(MainCalls)
    THEN /\ main_task' = MainTask("done", main_task.call, 0, NoMessage)
         /\ MainLeaves
         /\ UNCHANGED uuids
    ELSE LET action == MainCalls[main_task.call + 1] IN
         /\ main_task' = MainTask("send", main_task.call + 1, 0,
                                  call_msg(action, MainPayload(action)))
         /\ uuids' = uuids + 1
         /\ UNCHANGED ws
         /\ UNCHANGED csmsVars

\* simple_charge_point.py:30-32  ws.recv() returns the oldest frame that has
\* not been read, and that frame is returned as the response; on a closed
\* websocket with nothing left to read it raises
main_recv ==
    /\ main_task.pc = "recv"
    /\ IF nread < Len(replies)
       THEN /\ nread' = nread + 1
            /\ delivered' = Append(delivered, [attempt |-> Len(wire),
                                               answers |-> nread + 1])
            /\ wire' = [wire EXCEPT ![Len(wire)].state = "answered"]
            /\ MainProceeds
       ELSE /\ ws # "open"
            /\ AttemptFailed(ClosedException)
            /\ UNCHANGED <<uuids, wire, nread, delivered>>
    /\ UNCHANGED <<program, replies>>

\* simple_charge_point.py:30, 33-36  no frame arrives within 10 seconds:
\* asyncio.TimeoutError
main_timeout ==
    /\ main_task.pc = "recv"
    /\ nread = Len(replies)
    /\ ws = "open"
    /\ wire' = [wire EXCEPT ![Len(wire)].state = "timed_out"]
    /\ AttemptFailed("TimeoutError")
    /\ UNCHANGED <<program, uuids, replies, nread, delivered>>

\* the websocket is closed by the peer or breaks
connection_lost ==
    /\ ws = "open"
    /\ ws' \in {"ClosedOK", "ClosedError"}
    /\ PeerCloses
    /\ UNCHANGED <<program, uuids, wire, replies, nread, delivered>>

(* ---------------------------------------------------- charging_simulator.py *)
VARIABLES
    connected,          \* self.connected
    charging_state,     \* self.charging_state
    sim_transaction_id, \* self.transaction_id
    energy_consumed,    \* self.energy_consumed
    session,            \* simulate_charging_session / run: the step it is
                        \* at (pc), the loop index i, the attempt of
                        \* send_message_with_retry and the message being sent
    heartbeat_task,     \* continuous_heartbeat: its state (pc), the attempt,
                        \* the message being sent and the heartbeats begun
    status_log          \* the values self.charging_state has changed to,
                        \* in order

simVars == <<connected, charging_state, sim_transaction_id, energy_consumed,
             session, heartbeat_task, status_log>>

SessionTask(pc, i, attempt, message) ==
    [pc |-> pc, i |-> i, attempt |-> attempt, message |-> message]

HeartbeatTask(pc, attempt, message, calls) ==
    [pc |-> pc, attempt |-> attempt, message |-> message, calls |-> calls]

\* ChargingStationSimulator.__init__
InitSimulator ==
    /\ connected = FALSE
    /\ charging_state = "Available"
    /\ sim_transaction_id = "None"
    /\ energy_consumed = 0
    /\ session = SessionTask("off", 0, 0, NoMessage)
    /\ heartbeat_task = HeartbeatTask("off", 0, NoMessage, 0)
    /\ status_log = <<>>

\* charging_simulator.py:171-213  the calls of simulate_charging_session
SessionOrder ==
    <<"boot_notification", "status_preparing", "authorize",
      "transaction_started", "status_charging", "meter_values",
      "transaction_ended", "status_available", "sleep">>

\* the step after step pc: the metering loop repeats meter_values
SessionNext(pc, i) ==
    IF pc = "meter_values" /\ i + 1 < MeterIterations
    THEN pc
    ELSE SessionOrder[1 + CHOOSE n \in DOMAIN SessionOrder :
                              SessionOrder[n] = pc]

\* charging_simulator.py:185, 207, 212  self.charging_state when step pc
\* builds its message
ChargingStateAt(pc) ==
    CASE pc = "transaction_started" -> "Charging"
      [] pc = "transaction_ended"   -> "Finishing"
      [] pc = "status_available"    -> "Available"
      [] OTHER                      -> charging_state

\* charging_simulator.py:184  self.transaction_id when step pc builds its
\* message
TransactionIdAt(pc) ==
    IF pc = "transaction_started" THEN "tx_time" ELSE sim_transaction_id

\* charging_simulator.py:113-115  the values self.energy_consumed can have
\* when step pc builds its message
EnergyAt(pc) ==
    IF pc = "meter_values" /\ charging_state = "Charging"
    THEN {energy_consumed + delta : delta \in Deltas}
    ELSE {energy_consumed}

\* charging_simulator.py:74-78  the payload of status_notification(status)
StatusPayload(status) ==
    JDict([connectorId |-> 1, errorCode |-> "None", status |-> status])

\* charging_simulator.py:97-106  the payload of transaction_event
TransactionEventPayload(event_type, trigger_reason, id, state) ==
    JDict([eventType |-> event_type, timestamp |-> "time",
           triggerReason |-> trigger_reason, seqNo |-> 1,
           transactionInfo |-> [transactionId |-> id,
                                chargingState |-> state]])

\* the action and payload of the call of step pc, built from the
\* simulator's fields as the step has set them
SessionCall(pc, state, id, energy) ==
    CASE pc = "boot_notification" ->
            <<"BootNotification",
              JDict([chargingStation |->
                        [serialNumber |-> "CP001",
                         model |-> "Charging Station Simulator",
                         vendorName |-> "OCPP Simulator"],
                     reason |-> "PowerUp"])>>
      [] pc = "status_preparing" ->
            <<"StatusNotification", StatusPayload("Preparing")>>
      [] pc = "authorize" ->
            <<"Authorize",
              JDict([idToken |-> [idToken |-> "test_token_123",
                                  type |-> "Central"]])>>
      [] pc = "transaction_started" ->
            <<"TransactionEvent",
              TransactionEventPayload("Started", "Authorized", id, state)>>
      [] pc = "status_charging" ->
            <<"StatusNotification", StatusPayload("Charging")>>
      [] pc = "meter_values" ->
            <<"MeterValues",
              JDict([connectorId |-> 1, transactionId |-> id,
                     meterValue |-> energy])>>
      [] pc = "transaction_ended" ->
            <<"TransactionEvent",
              TransactionEventPayload("Ended", "EVDisconnected", id, state)>>
      [] pc = "status_available" ->
            <<"StatusNotification", StatusPayload("Available")>>

\* charging_simulator.py:227-240, 171-172  run() connects, starts the
\* heartbeat task and simulate_charging_session sends BootNotification
\* before it suspends for the first time
simulator_start ==
    LET call == SessionCall("boot_notification", charging_state,
                            sim_transaction_id, energy_consumed)
    IN  /\ program = "none"
        /\ program' = "charging_simulator"
        /\ ws' = "open"
        /\ connection_opened(StationWebsocket)
        /\ connected' = TRUE
        /\ heartbeat_task' = HeartbeatTask("run", 0, NoMessage, 0)
        /\ Send(call_msg(call[1], call[2]))
        /\ uuids' = uuids + 1
        /\ session' = SessionTask(SessionNext("boot_notification", 0), 0, 0,
                                  NoMessage)
        /\ UNCHANGED <<charging_state, sim_transaction_id, energy_consumed,
                       status_log, replies, nread, delivered>>

\* an error exit of run() that leaves the heartbeat task running
Mut_SimulatorExits ==
    /\ session' = [session EXCEPT !.pc = "exit"]
    /\ UNCHANGED heartbeat_task
    /\ ws' = IF ws = "open" THEN "ClosedOK" ELSE ws
    /\ PeerCloses

\* charging_simulator.py:248-255  an exception reaches run(): the websocket
\* is closed and sys.exit(1) ends the process, the heartbeat task with it
SimulatorExits ==
    /\ session' = [session EXCEPT !.pc = "exit"]
    /\ heartbeat_task' = [heartbeat_task EXCEPT !.pc = "exit"]
    /\ ws' = IF ws = "open" THEN "ClosedOK" ELSE ws
    /\ PeerCloses

\* charging_simulator.py:45-56  one attempt of send_message_with_retry made
\* by the session for message: the step is over when websocket.send
\* succeeds; a failure of the last attempt is raised to run()
SessionAttempt(message) ==
    IF ws = "open"
    THEN /\ Send(message)
         /\ session' = SessionTask(SessionNext(session.pc, session.i),
                                   IF session.pc = "meter_values"
                                   THEN session.i + 1 ELSE session.i,
                                   0, NoMessage)
         /\ UNCHANGED <<ws, heartbeat_task>>
         /\ UNCHANGED csmsVars
    ELSE /\ UNCHANGED wire
         /\ IF session.attempt = max_retries - 1
            THEN SimulatorExits
            ELSE /\ session' = [session EXCEPT !.attempt = @ + 1,
                                               !.message = message]
                 /\ UNCHANGED <<ws, heartbeat_task>>
                 /\ UNCHANGED csmsVars

\* one step of simulate_charging_session between two suspensions: the
\* fields are set and the message built when the call begins, then every
\* step is one attempt to send it
session_step ==
    /\ session.pc \in {SessionOrder[n] : n \in 2..(Len(SessionOrder) - 1)}
    /\ IF session.message = NoMessage
       THEN \E energy \in EnergyAt(session.pc) :
              LET call == SessionCall(session.pc,
                                      ChargingStateAt(session.pc),
                                      TransactionIdAt(session.pc), energy)
              IN  /\ charging_state' = ChargingStateAt(session.pc)
                  /\ status_log' =
                        IF ChargingStateAt(session.pc) # charging_state
                        THEN Append(status_log, ChargingStateAt(session.pc))
                        ELSE status_log
                  /\ sim_transaction_id' = TransactionIdAt(session.pc)
                  /\ energy_consumed' = energy
                  /\ uuids' = uuids + 1
                  /\ SessionAttempt(call_msg(call[1], call[2]))
       ELSE /\ SessionAttempt(session.message)
            /\ UNCHANGED <<charging_state, sim_transaction_id,
                           energy_consumed, status_log, uuids>>
    /\ UNCHANGED <<program, connected, replies, nread, delivered>>

\* charging_simulator.py:243-246  after sleep(10) run() cancels the
\* heartbeat task and leaves the async with block
session_end ==
    /\ session.pc = "sleep"
    /\ session' = [session EXCEPT !.pc = "done"]
    /\ heartbeat_task' = IF heartbeat_task.pc = "run"
                         THEN HeartbeatTask("cancelled", 0, NoMessage,
                                            heartbeat_task.calls)
                         ELSE heartbeat_task
    /\ ws' = IF ws = "open" THEN "ClosedOK" ELSE ws
    /\ PeerCloses
    /\ UNCHANGED <<program, uuids, wire, replies, nread, delivered,
                   connected, charging_state, sim_transaction_id,
                   energy_consumed, status_log>>

\* a heartbeat task that ends after the first Heartbeat it has sent
Mut_HeartbeatAttempt(message, calls) ==
    IF ws = "open"
    THEN /\ Send(message)
         /\ heartbeat_task' = HeartbeatTask("ended", 0, NoMessage, calls)
    ELSE /\ UNCHANGED wire
         /\ heartbeat_task' = HeartbeatTask("ended", 0, NoMessage, calls)

\* charging_simulator.py:45-56  one attempt of send_message_with_retry made
\* by the heartbeat task: after a success it sleeps 30 seconds; a failure
\* of the last attempt is caught by continuous_heartbeat, which ends
HeartbeatAttempt(message, calls) ==
    IF ws = "open"
    THEN /\ Send(message)
         /\ heartbeat_task' = HeartbeatTask("run", 0, NoMessage, calls)
    ELSE /\ UNCHANGED wire
         /\ heartbeat_task' =
               IF heartbeat_task.attempt = max_retries - 1
               THEN HeartbeatTask("ended", 0, NoMessage, calls)
               ELSE HeartbeatTask("run", heartbeat_task.attempt + 1, message,
                                  calls)

\* charging_simulator.py:217-225, 161-165  continuous_heartbeat: while
\* self.connected, build a Heartbeat call and send it
continuous_heartbeat ==
    /\ heartbeat_task.pc = "run"
    /\ connected
    /\ IF heartbeat_task.message = NoMessage
       THEN /\ uuids' = uuids + 1
            /\ HeartbeatAttempt(call_msg("Heartbeat", EmptyDict),
                                heartbeat_task.calls + 1)
       ELSE /\ UNCHANGED uuids
            /\ HeartbeatAttempt(heartbeat_task.message, heartbeat_task.calls)
    /\ UNCHANGED <<program, ws, replies, nread, delivered, connected,
                   charging_state, sim_transaction_id, energy_consumed,
                   session, status_log>>
    /\ UNCHANGED csmsVars

(* ------------------------------------------------------- csms_server.py *)
VARIABLES
    server_charging_stations,  \* CSMS.charging_stations of the CSMS object
                               \* of one connection: station id -> dict
    server_transactions,       \* CSMS.transactions: station id -> list
    server_returned            \* what the handler of the last Call returned

serverVars ==
    <<server_charging_stations, server_transactions, server_returned>>

\* csms_server.py:293  self.id of the CSMS object: path.split('/')[-1]
server_id == "CP001"

\* a handler's return value: the name of the response class and its fields
Returned(response, fields) == [response |-> response, fields |-> fields]

\* a handler without a return statement returns None
ReturnedNone == Returned("None", <<>>)

\* csms_server.py:105-108  CSMS.__init__; no Call has been handled
InitServer ==
    /\ server_charging_stations = <<>>
    /\ server_transactions = <<>>
    /\ server_returned = Returned("none", <<>>)

\* csms_server.py:111-133
on_boot_notification(charging_station, reason) ==
    /\ server_charging_stations' =
          DictPut(server_charging_stations, server_id,
                  [charging_station |-> charging_station,
                   reason           |-> reason,
                   connected_at     |-> "time",
                   status           |-> "connected"])
    /\ server_returned' =
          Returned("BootNotificationResponse",
                   [status |-> "Accepted", current_time |-> "time",
                    interval |-> 300])
    /\ UNCHANGED server_transactions

\* csms_server.py:147-151, 213-217  the station's dict, created when absent,
\* with the key created when absent
WithKey(stations, key) ==
    LET s1 == IF server_id \notin DOMAIN stations
              THEN DictPut(stations, server_id, <<>>)
              ELSE stations
    IN  IF key \notin DOMAIN s1[server_id]
        THEN [s1 EXCEPT ![server_id] = DictPut(@, key, <<>>)]
        ELSE s1

\* csms_server.py:135-158
on_status_notification(timestamp, connector_status, evse_id, connector_id) ==
    /\ server_charging_stations' =
          [WithKey(server_charging_stations, "connectors")
              EXCEPT ![server_id] =
                 DictPut(@, "connectors",
                         DictPut(@["connectors"], connector_id,
                                 [status    |-> connector_status,
                                  evse_id   |-> evse_id,
                                  timestamp |-> timestamp]))]
    /\ server_returned' = ReturnedNone
    /\ UNCHANGED server_transactions

\* csms_server.py:160-173
on_authorize(id_token) ==
    /\ server_returned' =
          Returned("AuthorizeResponse",
                   [id_token_info |-> [status |-> "Accepted"]])
    /\ UNCHANGED <<server_charging_stations, server_transactions>>

\* csms_server.py:175-202
on_transaction_event(event_type, timestamp, transaction_info) ==
    LET t1 == IF server_id \notin DOMAIN server_transactions
              THEN DictPut(server_transactions, server_id, <<>>)
              ELSE server_transactions
    IN  /\ server_transactions' =
              [t1 EXCEPT ![server_id] = Append(@, transaction_info)]
        /\ server_returned' =
              Returned("TransactionEventResponse",
                       [total_cost |-> 0, charging_priority |-> 0,
                        id_token_info |-> [status |-> "Accepted"],
                        updated_personal_message |->
                            [format |-> "UTF8", code |-> "OK"]])
        /\ UNCHANGED server_charging_stations

\* csms_server.py:204-225
on_meter_values(evse_id, meter_value) ==
    /\ server_charging_stations' =
          [WithKey(server_charging_stations, "meter_values")
              EXCEPT ![server_id] =
                 DictPut(@, "meter_values",
                         Append(@["meter_values"],
                                [evse_id     |-> evse_id,
                                 meter_value |-> meter_value,
                                 timestamp   |-> "time"]))]
    /\ server_returned' = ReturnedNone
    /\ UNCHANGED server_transactions

\* csms_server.py:227-234
on_heartbeat ==
    /\ server_returned' =
          Returned("HeartbeatResponse", [current_time |-> "time"])
    /\ UNCHANGED <<server_charging_stations, server_transactions>>

\* csms_server.py:236-248
on_data_transfer(vendor_id) ==
    /\ server_returned' =
          Returned("DataTransferResponse", [status |-> "Accepted"])
    /\ UNCHANGED <<server_charging_stations, server_transactions>>

(* --------------------------------------------------------- specifications *)
vars == <<cpVars, csmsVars, linkVars, main_task, simVars, serverVars>>

Init ==
    /\ InitCP
    /\ InitCsms
    /\ InitLink
    /\ InitMain
    /\ InitSimulator
    /\ InitServer

\* the exploration stays within maxTransactions transaction ids, MaxTasks
\* tasks that have not run and MaxMeter on every energy counter
WithinBounds(maxTransactions) ==
    /\ Cardinality(DOMAIN transactions') <= maxTransactions
    /\ Len(tasks') <= MaxTasks
    /\ \A c \in ConnectorIds : meter_values'[c] <= MaxMeter

\* the CSMS sends RequestStartTransaction
RequestStart(maxTime, maxTransactions) ==
    /\ \E c \in RequestedConnectorIds, t \in ClockReadings(maxTime) :
          /\ on_request_start_transaction(c, t)
          /\ WithinBounds(maxTransactions)
    /\ UNCHANGED <<csmsVars, linkVars, main_task, simVars, serverVars>>

\* the CSMS sends RequestStopTransaction
RequestStop(maxTime, maxTransactions) ==
    /\ \E tx \in TxIds, t \in ClockReadings(maxTime) :
          /\ on_request_stop_transaction(tx, t)
          /\ WithinBounds(maxTransactions)
    /\ UNCHANGED <<csmsVars, linkVars, main_task, simVars, serverVars>>

\* the oldest created task runs
TransactionEventSent ==
    /\ send_transaction_event
    /\ UNCHANGED <<csmsVars, linkVars, main_task, simVars, serverVars>>

\* the metering task runs until it suspends again
Metering ==
    /\ simulate_charging
    /\ WithinBounds(DeepTransactions)
    /\ UNCHANGED <<csmsVars, linkVars, main_task, simVars, serverVars>>

Next ==
    \/ RequestStart(MaxTime, MaxTransactions)
    \/ RequestStop(MaxTime, MaxTransactions)
    \/ TransactionEventSent
    \/ Metering

\* the charge point emulator (charge_point.py)
Spec == Init /\ [][Next]_vars

NextDeep ==
    \/ RequestStart(DeepTime, DeepTransactions)
    \/ RequestStop(DeepTime, DeepTransactions)
    \/ TransactionEventSent
    \/ Metering

\* the charge point explored over more clock seconds and transactions
SpecDeep == Init /\ [][NextDeep]_vars

\* the exploration stays within MaxTransactions transaction ids and
\* MaxQueued tasks that have not run
WithinQueue ==
    /\ Cardinality(DOMAIN transactions') <= MaxTransactions
    /\ Len(tasks') <= MaxQueued

NextRecords ==
    \/ RequestStart(DeepTime, DeepTransactions)
    \/ RequestStop(DeepTime, DeepTransactions)
    \/ TransactionEventSent

\* the charge point's remote handlers over several clock seconds, without
\* the metering task
SpecRecords == Init /\ [][NextRecords]_vars

\* the CSMS sends RequestStartTransaction while created tasks wait to run
QueuedStart ==
    /\ cp_ws = "open"
    /\ \E c \in RequestedConnectorIds, t \in ClockReadings(MaxTime) :
          /\ on_request_start_transaction(c, t)
          /\ WithinQueue
    /\ UNCHANGED <<csmsVars, linkVars, main_task, simVars, serverVars>>

\* the CSMS sends RequestStopTransaction while created tasks wait to run
QueuedStop ==
    /\ cp_ws = "open"
    /\ \E tx \in TxIds, t \in ClockReadings(MaxTime) :
          /\ on_request_stop_transaction(tx, t)
          /\ WithinQueue
    /\ UNCHANGED <<csmsVars, linkVars, main_task, simVars, serverVars>>

\* the charge point's connection to the CSMS is lost
CpConnectionClosed ==
    /\ main_connection_closed
    /\ UNCHANGED <<csmsVars, linkVars, main_task, simVars, serverVars>>

NextQueue ==
    \/ QueuedStart
    \/ QueuedStop
    \/ TransactionEventSent
    \/ CpConnectionClosed

\* the charge point's remote handlers and the tasks they create, with
\* several tasks waiting to run at once, until the connection is lost
SpecQueue == Init /\ [][NextQueue]_vars

\* simple_charge_point.py:52-69, charging_simulator.py:74-78  payloads of
\* the calls the stations send, and payloads that are not JSON objects
InboundPayloads ==
    [BootNotification   |-> {MainPayload("BootNotification"), JList(<<>>)},
     StatusNotification |-> {MainPayload("StatusNotification"),
                             StatusPayload("Charging")},
     Heartbeat          |-> {EmptyDict, JStr("now")},
     MeterValues        |-> {MainPayload("MeterValues")},
     Authorize          |-> {JDict([idToken |-> "test_token_123"])},
     TransactionEvent   |-> {JDict([eventType |-> "Started"])},
     DataTransfer       |-> {JDict([vendorId |-> "vendor"])},
     Reset              |-> {JDict([type |-> "Immediate"])}]

\* the texts a peer sends to the CSMS: Calls of every action the CSMS
\* dispatches and of one it does not, Results, Errors, and texts that are
\* not OCPP frames
InboundMessages ==
    UNION {{Call("m1", a, p) : p \in InboundPayloads[a]} :
              a \in DOMAIN InboundPayloads}
      \cup {CallResult(JStr("m1"), <<>>),
            CallResult(JStr("m2"), [currentTime |-> "time"]),
            JList(<<JInt(4), JStr("m1"), JStr("GenericError"), JStr(""),
                    EmptyDict>>),
            JList(<<JInt(4), JStr("m2"), JStr("GenericError"),
                    JStr("failed"), EmptyDict>>),
            JList(<<JInt(5), JStr("m1"), JStr("Heartbeat"), EmptyDict>>),
            JList(<<JInt(2), JStr("m1")>>),
            NotJson, JInt(7), JStr("ping"), JStr("abc"),
            JDict([a |-> 1])}

\* a station connects to the CSMS
CsmsConnect ==
    /\ \E websocket \in ConnectionIds : connection_opened(websocket)
    /\ UNCHANGED <<cpVars, linkVars, main_task, simVars, serverVars>>

\* the CSMS receives a text on one of its websockets
CsmsReceive ==
    /\ \E websocket \in connections, message \in InboundMessages :
          message_received(websocket, message)
    /\ \A s \in DOMAIN charging_stations' :
          "message_count" \in DOMAIN charging_stations'[s]
              => charging_stations'[s]["message_count"] <= MaxMessages
    /\ UNCHANGED <<cpVars, linkVars, main_task, simVars, serverVars>>

\* one of the CSMS's websockets closes
CsmsDisconnect ==
    /\ \E websocket \in connections : connection_closed(websocket)
    /\ UNCHANGED <<cpVars, linkVars, main_task, simVars, serverVars>>

NextCsms ==
    \/ CsmsConnect
    \/ CsmsReceive
    \/ CsmsDisconnect

\* the simple CSMS (simple_csms.py) serving any peers
SpecCsms == Init /\ [][NextCsms]_vars

MainStart ==
    /\ main_start
    /\ UNCHANGED <<cpVars, simVars, serverVars>>

MainSend ==
    /\ main_send
    /\ UNCHANGED <<cpVars, simVars, serverVars>>

MainRecv ==
    /\ main_recv
    /\ UNCHANGED <<cpVars, simVars, serverVars>>

MainTimeout ==
    /\ main_timeout
    /\ Cardinality({i \in DOMAIN wire' : wire'[i].state = "timed_out"})
          <= MaxTimeouts
    /\ UNCHANGED <<cpVars, simVars, serverVars>>

Serve ==
    /\ CsmsServes
    /\ UNCHANGED <<cpVars, main_task, simVars, serverVars>>

ConnectionLost ==
    /\ connection_lost
    /\ UNCHANGED <<cpVars, main_task, simVars, serverVars>>

SimulatorStart ==
    /\ simulator_start
    /\ UNCHANGED <<cpVars, main_task, serverVars>>

SessionStep ==
    /\ session_step
    /\ UNCHANGED <<cpVars, main_task, serverVars>>

SessionEnd ==
    /\ session_end
    /\ UNCHANGED <<cpVars, main_task, serverVars>>

Heartbeat ==
    /\ continuous_heartbeat
    /\ heartbeat_task'.calls <= MaxHeartbeats
    /\ UNCHANGED <<cpVars, main_task, serverVars>>

NextStation ==
    \/ MainStart
    \/ MainSend
    \/ MainRecv
    \/ MainTimeout
    \/ SimulatorStart
    \/ SessionStep
    \/ SessionEnd
    \/ Heartbeat
    \/ Serve
    \/ ConnectionLost

\* one station program (simple_charge_point.py or charging_simulator.py)
\* connected to the simple CSMS
SpecStation == Init /\ [][NextStation]_vars

\* the heartbeat task wakes from asyncio.sleep(30) and runs
HeartbeatTick ==
    /\ continuous_heartbeat
    /\ heartbeat_task'.calls <= LiveHeartbeats
    /\ UNCHANGED <<cpVars, main_task, serverVars>>

NextHeartbeat ==
    \/ SimulatorStart
    \/ SessionStep
    \/ SessionEnd
    \/ HeartbeatTick
    \/ ConnectionLost

\* charging_simulator.py with its heartbeat task: the event loop runs the
\* heartbeat task whenever its sleep has expired, whatever the charging
\* session does
SpecHeartbeat == Init /\ [][NextHeartbeat]_vars /\ WF_vars(HeartbeatTick)

\* the logs of the ocpp-library CSMS stay within MaxLogged entries
WithinLogs ==
    /\ \A s \in DOMAIN server_transactions' :
          Len(server_transactions'[s]) <= MaxLogged
    /\ \A s \in DOMAIN server_charging_stations' :
          "meter_values" \in DOMAIN server_charging_stations'[s]
              => Len(server_charging_stations'[s]["meter_values"])
                    <= MaxLogged

\* the ocpp library dispatches a BootNotification Call to its handler
ServerBoot ==
    /\ \E reason \in {"PowerUp", "Triggered"} :
          on_boot_notification([model |-> "Test CP"], reason)
    /\ UNCHANGED <<cpVars, csmsVars, linkVars, main_task, simVars>>

\* the ocpp library dispatches a StatusNotification Call to its handler
ServerStatus ==
    /\ \E connector_status \in {"Available", "Occupied"} :
          on_status_notification("time", connector_status, 1, 1)
    /\ UNCHANGED <<cpVars, csmsVars, linkVars, main_task, simVars>>

\* the ocpp library dispatches an Authorize Call to its handler
ServerAuthorize ==
    /\ on_authorize([id_token |-> "test_token_123"])
    /\ UNCHANGED <<cpVars, csmsVars, linkVars, main_task, simVars>>

\* the ocpp library dispatches a TransactionEvent Call to its handler
ServerTransactionEvent ==
    /\ \E event_type \in {"Started", "Ended"}, tx \in {"tx1", "tx2"} :
          on_transaction_event(event_type, "time", [transaction_id |-> tx])
    /\ WithinLogs
    /\ UNCHANGED <<cpVars, csmsVars, linkVars, main_task, simVars>>

\* the ocpp library dispatches a MeterValues Call to its handler
ServerMeterValues ==
    /\ \E evse_id \in {1, 2} : on_meter_values(evse_id, "sampledValue")
    /\ WithinLogs
    /\ UNCHANGED <<cpVars, csmsVars, linkVars, main_task, simVars>>

\* the ocpp library dispatches a Heartbeat Call to its handler
ServerHeartbeat ==
    /\ on_heartbeat
    /\ UNCHANGED <<cpVars, csmsVars, linkVars, main_task, simVars>>

\* the ocpp library dispatches a DataTransfer Call to its handler
ServerDataTransfer ==
    /\ on_data_transfer("vendor")
    /\ UNCHANGED <<cpVars, csmsVars, linkVars, main_task, simVars>>

NextServer ==
    \/ ServerBoot
    \/ ServerStatus
    \/ ServerAuthorize
    \/ ServerTransactionEvent
    \/ ServerMeterValues
    \/ ServerHeartbeat
    \/ ServerDataTransfer

\* the handlers of the CSMS object that csms_server.py makes for one
\* connection, called with the fields of the Calls the library dispatches
SpecServer == Init /\ [][NextServer]_vars

(* ------------------------------------------ remote start / stop: claims *)
\* the step is a run of a remote request handler: every run that is not a
\* repetition of the previous refusal writes a new reply or creates a task
HandlerRan ==
    \/ reply' # reply
    \/ Len(tasks') > Len(tasks)

\* the step handles a remote request of kind op and answers it with status
Answered(op, status) ==
    /\ HandlerRan
    /\ reply'.op = op
    /\ reply'.status = status

\* C1: a RequestStopTransaction is answered Accepted only if its transaction
\* id is the current transaction id of some connector; a stop naming an
\* already stopped transaction is Rejected.
C1_StopRejectedUnlessActive ==
    [][Answered("stop", "Accepted") =>
          \E c \in ConnectorIds : connectors[c].transaction_id = reply'.tx]_vars

\* C2: a RequestStartTransaction for a connector that is not Available is
\* answered Rejected, changes no connector, transaction or energy counter
\* and creates no task that sends a TransactionEvent.
C2_StartOnBusyRejected ==
    [][(/\ HandlerRan
        /\ reply'.op = "start"
        /\ reply'.conn \in ConnectorIds
        /\ connectors[reply'.conn].status # "Available")
       => /\ reply'.status = "Rejected"
          /\ UNCHANGED <<connectors, transactions, meter_values, tasks>>]_vars

\* C2 witness: a start was refused on a connector that is in use
C2_Witness ==
    /\ reply.op = "start"
    /\ reply.status = "Rejected"
    /\ reply.conn \in ConnectorIds
    /\ connectors[reply.conn].status = "Occupied"
    /\ connectors[reply.conn].transaction_id # NoTx

C4_StopEffects ==
    [][Answered("stop", "Accepted") =>
          LET tx == reply'.tx
              c  == transactions[tx].connector_id
          IN  /\ connectors'[c].status = "Available"
              /\ connectors'[c].transaction_id = NoTx
              /\ transactions'[tx].meter_stop = meter_values'[c]
              /\ tasks' = Append(tasks,
                                 TransactionEventTask("Ended", tx, c))]_vars

\* C4 witness: a stop was accepted for a transaction that had metered
\* energy, and the task that sends its Ended event exists
C4_Witness ==
    /\ reply.op = "stop"
    /\ reply.status = "Accepted"
    /\ transactions[reply.tx].meter_stop > 0
    /\ \E i \in DOMAIN tasks :
          tasks[i].event = "Ended" /\ tasks[i].tx = reply.tx

\* the step accepts a start that allocates transaction id tx
StartsTx(tx) ==
    /\ Answered("start", "Accepted")
    /\ reply'.transaction_id = tx

\* C5: meter_start of a transaction is its connector's energy counter at the
\* moment the start was accepted and stays so until the id is started again,
\* and every stopped transaction has meter_stop >= meter_start.
C5_MeterStartStop ==
    /\ [](\A tx \in DOMAIN transactions :
            transactions[tx].stop_time # -1 =>
                transactions[tx].meter_stop >= transactions[tx].meter_start)
    /\ [][Answered("start", "Accepted") =>
            transactions'[reply'.transaction_id].meter_start
                = meter_values[reply'.conn]]_vars
    /\ [][\A tx \in DOMAIN transactions :
            ~StartsTx(tx) =>
                transactions'[tx].meter_start = transactions[tx].meter_start]_vars

\* C5 witness: a transaction metered energy and was stopped, and a later
\* transaction started at the non-zero counter it left
C5_Witness ==
    /\ \E tx \in DOMAIN transactions :
          /\ transactions[tx].stop_time # -1
          /\ transactions[tx].meter_stop > transactions[tx].meter_start
    /\ \E tx \in DOMAIN transactions :
          /\ transactions[tx].meter_start > 0
          /\ transactions[tx].meter_start
                = meter_values[transactions[tx].connector_id]

\* the transactions of connector c that have been started and not ended
OpenTransactions(c) ==
    {tx \in DOMAIN transactions :
        /\ transactions[tx].connector_id = c
        /\ transactions[tx].stop_time = -1}

\* C6: every connector has at most one transaction started and not yet
\* ended, and a transaction keeps its connector from creation to end.
C6_OneOpenTransaction ==
    /\ [](\A c \in ConnectorIds : Cardinality(OpenTransactions(c)) <= 1)
    /\ [][\A tx \in DOMAIN transactions :
            transactions'[tx].connector_id = transactions[tx].connector_id]_vars

(* ------------------------------------------- calls and responses: claims *)
\* the number of outcomes of the i-th transmission: the frames ws.recv()
\* returned to the wait for its response, and the TimeoutError of that wait
Outcomes(i) ==
    Cardinality({n \in DOMAIN delivered : delivered[n].attempt = i})
      + (IF wire[i].state = "timed_out" THEN 1 ELSE 0)

\* the station program has made all its calls and ended normally
Finished == main_task.pc = "done" \/ session.pc = "done"

\* C7: no Call the station has put on the wire has two outcomes among
\* Result, Error and Timeout, and when the station program has ended
\* normally every Call it has put on the wire has exactly one.
C7_ExactlyOneOutcome ==
    /\ \A i \in DOMAIN wire : Outcomes(i) <= 1
    /\ Finished => \A i \in DOMAIN wire : Outcomes(i) = 1

\* C8: no frame that ws.recv() returns as the response of a call is the
\* Result of a transmission whose wait had ended in TimeoutError.
C8_LateResultDropped ==
    \A n \in DOMAIN delivered :
        LET sent == delivered[n].answers
        IN  ~ /\ wire[sent].state = "timed_out"
              /\ FrameType(replies[sent]) = JInt(3)
              /\ FrameId(replies[sent]) = FrameId(wire[sent].frame)

\* C9: whenever an identifier is on the wire twice, the earlier transmission
\* was no longer pending (it had been answered or had timed out) when the
\* later one was sent; the state of a transmission does not change once a
\* later frame is on the wire.
C9_OneOutstandingPerId ==
    \A i \in DOMAIN wire, j \in DOMAIN wire :
        (i < j /\ FrameId(wire[i].frame) = FrameId(wire[j].frame))
            => wire[i].state # "pending"

\* C9 witness: a Call that timed out has been sent again with the same
\* identifier and is pending
C9_Witness ==
    \E i \in DOMAIN wire, j \in DOMAIN wire :
        /\ i < j
        /\ FrameId(wire[i].frame) = FrameId(wire[j].frame)
        /\ wire[i].state = "timed_out"
        /\ wire[j].state = "pending"

\* the text is a Result or an Error frame
IsResponseFrame(message) ==
    /\ message.t = "list"
    /\ Len(message.v) >= 3
    /\ FrameType(message) \in {JInt(3), JInt(4)}

\* C10: a Result or Error frame received by the CSMS, which has no pending
\* call, is discarded: nothing is sent in reply and no handler runs.
C10_UnmatchedDiscarded ==
    IsResponseFrame(exchange.message)
        => exchange.sent = <<>> /\ exchange.handler = "none"

(* ------------------------------------------ the CSMS's replies: claims *)
\* simple_csms.py:236-248  the actions handle_call dispatches to a handler
KnownActions ==
    {"BootNotification", "StatusNotification", "Authorize",
     "TransactionEvent", "MeterValues", "Heartbeat", "DataTransfer"}

\* the text is a Call [2, id, action, payload] with an identifier
IsCall(message) ==
    /\ message.t = "list"
    /\ Len(message.v) = 4
    /\ FrameType(message) = JInt(2)
    /\ FrameId(message).t = "str"
    /\ message.v[3].t = "str"

\* the text is a Call of an action the CSMS dispatches, with a JSON object
\* as payload
WellFormedCall(message) ==
    /\ IsCall(message)
    /\ message.v[3].v \in KnownActions
    /\ message.v[4].t = "dict"

\* the frame is a Result [3, id, payload] for the Call: it carries the
\* Call's identifier and its payload reports no error
IsResultFor(frame, message) ==
    /\ frame.t = "list"
    /\ Len(frame.v) = 3
    /\ FrameType(frame) = JInt(3)
    /\ FrameId(frame) = FrameId(message)
    /\ "errorCode" \notin DOMAIN FramePayload(frame).v

\* C11: every well-formed Call the CSMS receives is answered with exactly
\* one frame, a Result carrying that Call's identifier, and the Result for
\* a Heartbeat carries the current time; this holds for every Call of a
\* connection, a Heartbeat after an accepted BootNotification included.
C11_EachCallAnswered ==
    WellFormedCall(exchange.message) =>
        /\ Len(exchange.sent) = 1
        /\ IsResultFor(exchange.sent[1], exchange.message)
        /\ exchange.message.v[3] = JStr("Heartbeat") =>
              "currentTime" \in DOMAIN FramePayload(exchange.sent[1]).v

\* the text is invalid JSON, or JSON that is not an array
Malformed(message) == message.t \notin {"list", "NoneType"}

\* the step is the receipt of the text on the websocket of the last exchange
ReceivedNext(message) ==
    /\ exchange' # exchange
    /\ exchange'.websocket = exchange.websocket
    /\ exchange'.message = message

\* C12: the receipt of a malformed frame leaves the connection open, and a
\* well-formed Heartbeat Call received on that connection after a malformed
\* frame is answered by handle_heartbeat with a Result for that Heartbeat.
C12_HeartbeatAfterMalformed ==
    /\ [][(exchange' # exchange /\ Malformed(exchange'.message)) =>
             /\ connections' = connections
             /\ exchange'.websocket \in connections']_vars
    /\ [][(/\ Malformed(exchange.message)
           /\ ReceivedNext(Call("m1", "Heartbeat", EmptyDict))) =>
             /\ exchange'.websocket \in connections'
             /\ exchange'.handler = "handle_heartbeat"
             /\ Len(exchange'.sent) = 1
             /\ IsResultFor(exchange'.sent[1], exchange'.message)]_vars

\* the text cannot be decoded as a frame: it is invalid JSON, or an array
\* too short to be a Call, a Result or an Error
Undecodable(message) ==
    \/ message = NotJson
    \/ message.t = "list" /\ Len(message.v) < 3

\* the identifier that can be recovered from an undecodable text: the
\* second element of an array when it is a string, "-1" otherwise
RecoveredId(message) ==
    IF message.t = "list" /\ Len(message.v) >= 2 /\ message.v[2].t = "str"
    THEN message.v[2]
    ELSE JStr("-1")

\* the frame is an Error [4, id, code, description, details] with the code
IsErrorFrame(frame, id, code) ==
    /\ frame.t = "list"
    /\ Len(frame.v) >= 3
    /\ FrameType(frame) = JInt(4)
    /\ FrameId(frame) = id
    /\ frame.v[3] = JStr(code)

\* C13: a text that cannot be decoded is answered with one Error frame
\* (message type 4) whose code is FormatViolation and whose identifier is
\* the one recovered from the text, or "-1" when none can be recovered.
C13_DecodeFailureReply ==
    Undecodable(exchange.message) =>
        /\ Len(exchange.sent) = 1
        /\ IsErrorFrame(exchange.sent[1], RecoveredId(exchange.message),
                        "FormatViolation")

\* the error code a reply reports: the third element of an Error frame, or
\* the errorCode of the payload of a frame of another type
ErrorCodeOf(frame) ==
    IF FrameType(frame) = JInt(4) THEN frame.v[3].v
    ELSE IF FramePayload(frame).t = "dict"
            /\ "errorCode" \in DOMAIN FramePayload(frame).v
         THEN FramePayload(frame).v["errorCode"]
         ELSE "none"

\* the text is not a JSON array, or its length is outside {3, 4}, or its
\* first element is not 2, 3 or 4, or it is a Call of an unknown action
FormatViolated(message) ==
    \/ Malformed(message)
    \/ /\ message.t = "list"
       /\ \/ Len(message.v) \notin {3, 4}
          \/ FrameType(message) \notin {JInt(2), JInt(3), JInt(4)}
          \/ IsCall(message) /\ message.v[3].v \notin KnownActions

\* C14: a text that is not a JSON array, or whose length is outside {3, 4},
\* or whose first element is not 2, 3 or 4, or that is a Call of an unknown
\* action, is answered with the error code FormatViolation and no handle_*
\* method runs for it.
C14_FormatViolationCases ==
    FormatViolated(exchange.message) =>
        /\ Len(exchange.sent) = 1
        /\ ErrorCodeOf(exchange.sent[1]) = "FormatViolation"
        /\ exchange.handler = "none"

\* C15: a Call whose action the CSMS does not dispatch is answered with one
\* frame that reports the error code NotImplemented and carries the Call's
\* identifier.
C15_UnknownActionNotImplemented ==
    (IsCall(exchange.message) /\ exchange.message.v[3].v \notin KnownActions)
        => /\ Len(exchange.sent) = 1
           /\ FrameId(exchange.sent[1]) = FrameId(exchange.message)
           /\ ErrorCodeOf(exchange.sent[1]) = "NotImplemented"

\* the step is the receipt of a Call whose handling raised: the reply
\* reports InternalError
CallFailsInternally ==
    /\ exchange' # exchange
    /\ IsCall(exchange'.message)
    /\ Len(exchange'.sent) >= 1
    /\ ErrorCodeOf(exchange'.sent[1]) = "InternalError"

\* C16: a Call whose handling fails internally is answered once, with a
\* frame that reports InternalError and carries that Call's identifier, and
\* the connection it came on stays open.
C16_InternalErrorCarriesId ==
    [][CallFailsInternally =>
          /\ Len(exchange'.sent) = 1
          /\ FrameId(exchange'.sent[1]) = FrameId(exchange'.message)
          /\ connections' = connections
          /\ exchange'.websocket \in connections']_vars

(* ------------------------------- remote start and stop requests: claims *)
\* C17: every RequestStartTransaction and RequestStopTransaction, whatever
\* connector id or transaction id it names, is answered with a Result whose
\* status is Accepted or Rejected: the handler never raises.
C17_AlwaysAcceptedOrRejected ==
    reply.op \in {"start", "stop"} => reply.status \in {"Accepted", "Rejected"}

(* ------------------------------------- the station's notifications: claims *)
\* the i-th frame on the wire is a Call of the action
IsCallOf(i, action) == wire[i].frame.v[3] = JStr(action)

\* the payload of the i-th frame on the wire
PayloadOf(i) == wire[i].frame.v[4].v

\* C18: of two TransactionEvent calls the station has sent for one
\* transaction, the later one carries the greater sequence number (a
\* retransmission of a call, which repeats its identifier, is the same
\* event).
C18_SeqNoIncreasing ==
    \A i \in DOMAIN wire, j \in DOMAIN wire :
        (/\ i < j
         /\ IsCallOf(i, "TransactionEvent")
         /\ IsCallOf(j, "TransactionEvent")
         /\ FrameId(wire[i].frame) # FrameId(wire[j].frame)
         /\ PayloadOf(i).transactionInfo.transactionId
               = PayloadOf(j).transactionInfo.transactionId)
            => PayloadOf(i).seqNo < PayloadOf(j).seqNo

\* the statuses of the StatusNotification calls on the wire w, in order
RECURSIVE NotifiedStatuses(_)
NotifiedStatuses(w) ==
    IF w = <<>> THEN <<>>
    ELSE LET last == w[Len(w)]
             rest == NotifiedStatuses(SubSeq(w, 1, Len(w) - 1))
         IN  IF last.frame.v[3] = JStr("StatusNotification")
             THEN Append(rest, last.frame.v[4].v.status)
             ELSE rest

\* a StatusNotification carrying the status is on the wire w
Notified(w, status) ==
    \E n \in DOMAIN NotifiedStatuses(w) : NotifiedStatuses(w)[n] = status

\* the connector still has the status it was constructed with: no
\* transaction has been started
InitialStatus ==
    /\ charging_state = "Available"
    /\ ~\E n \in DOMAIN wire : IsCallOf(n, "TransactionEvent")

\* C19: every status the connector enters by a transition is reported: by
\* the time the connector leaves a status it had entered, a
\* StatusNotification carrying that status has been sent.
C19_TransitionsNotified ==
    [][charging_state' # charging_state =>
          InitialStatus \/ Notified(wire', charging_state)]_vars

\* C20: when the simulator's charging session has run to its end, the
\* statuses its StatusNotification calls carried are, in order, the
\* statuses its connector went through.
C20_NotifiedInTransitionOrder ==
    session.pc = "done" => NotifiedStatuses(wire) = status_log

(* ------------------------------------- the order of events: claims *)
\* the step runs a task that sends the event for the transaction
Sends(event, tx) ==
    /\ tasks # <<>>
    /\ tasks' = Tail(Scheduled(tasks))
    /\ Head(Scheduled(tasks)).event = event
    /\ Head(Scheduled(tasks)).tx = tx

\* the step accepts a start and leaves the connector with the status, the
\* TransactionEvent(Started) of the new transaction being a task that has
\* not run when the handler returns
StartCommits(status) ==
    /\ connectors[reply'.conn].status = "Available"
    /\ connectors'[reply'.conn].status = status
    /\ Len(tasks') = Len(tasks) + 1
    /\ tasks'[Len(tasks')].event = "Started"
    /\ tasks'[Len(tasks')].tx = reply'.transaction_id

Sent(event, tx) == [event |-> event, tx |-> tx] \in events_sent

\* C22: whenever the TransactionEvent(Ended) of a transaction has been sent,
\* the TransactionEvent(Started) of that transaction has been sent before
\* it, whatever the order in which requests are handled and tasks run.
C22_StartedBeforeEnded ==
    \A tx \in DOMAIN transactions : Sent("Ended", tx) => Sent("Started", tx)

\* C22 witness: a transaction's Started and Ended events have both been
\* sent, and a later transaction was stopped before its Started event was
\* sent: the tasks of both its events wait to run
C22_Witness ==
    /\ \E tx \in DOMAIN transactions : Sent("Started", tx) /\ Sent("Ended", tx)
    /\ Len(tasks) = 2
    /\ tasks[1].event = "Started"
    /\ tasks[2].event = "Ended"
    /\ tasks[1].tx = tasks[2].tx

(* --------------------------------------------------- metering: claims *)
\* the connector is charging: it is occupied by a transaction
Charging(c) ==
    /\ connectors[c].status = "Occupied"
    /\ connectors[c].transaction_id # NoTx

\* C23: no step decreases a connector's energy counter, and a step taken
\* while the connector is not charging leaves its counter unchanged.
C23_EnergyCounter ==
    [][\A c \in ConnectorIds :
          /\ meter_values'[c] >= meter_values[c]
          /\ ~Charging(c) => meter_values'[c] = meter_values[c]]_vars

\* C23 witness: a metering tick has just advanced the counter of connector
\* 1, which is charging, while connector 2, which had metered energy, is
\* not charging
C23_Witness ==
    /\ simPc = "call1"
    /\ Charging(1)
    /\ meter_values[1] > 0
    /\ ~Charging(2)
    /\ meter_values[2] > 0

\* charge_point.py:139-144  the step produces a MeterValues call for the
\* connector: the metering task advances the connector's counter and calls
\* _send_meter_values within the same guarded block
EmitsMeterValues(c) == meter_values'[c] # meter_values[c]

\* C24: a MeterValues call is produced for a connector only by a tick of
\* the metering task at which the connector is charging; from the step a
\* connector leaves Charging on, no tick produces a MeterValues call for it.
C24_MeterValuesOnlyWhenCharging ==
    [][\A c \in ConnectorIds :
          EmitsMeterValues(c) =>
              /\ Charging(c)
              /\ UNCHANGED <<connectors, transactions, tasks, reply>>]_vars

\* C24 witness: connector 1 metered energy and was stopped, and no
\* MeterValues was produced for it since (its counter is the recorded
\* meter_stop), while a tick has produced MeterValues for connector 2
C24_Witness ==
    /\ ~Charging(1)
    /\ \E tx \in DOMAIN transactions :
          /\ transactions[tx].connector_id = 1
          /\ transactions[tx].meter_stop = meter_values[1]
          /\ transactions[tx].meter_stop > transactions[tx].meter_start
    /\ Charging(2)
    /\ meter_values[2] >
          transactions[connectors[2].transaction_id].meter_start

(* ------------------------------------------------------ retries: claims *)
\* the transmissions of the frame with the identifier
TransmissionsOf(id) == {i \in DOMAIN wire : FrameId(wire[i].frame) = id}

\* the identifiers of the frames on the wire
IdsOnWire == {FrameId(wire[i].frame) : i \in DOMAIN wire}

\* C25: send_message_with_retry makes at most max_retries attempts for one
\* message (its attempt index stays below max_retries and no identifier is
\* on the wire more than max_retries times), it sends a message again only
\* after the attempt before has failed, and when max_retries attempts have
\* timed out the failure has been raised to the caller, which has exited.
C25_BoundedRetries ==
    /\ main_task.attempt < max_retries
    /\ session.attempt < max_retries
    /\ heartbeat_task.attempt < max_retries
    /\ \A id \in IdsOnWire :
          /\ Cardinality(TransmissionsOf(id)) <= max_retries
          /\ \A i \in TransmissionsOf(id), j \in TransmissionsOf(id) :
                i < j => wire[i].state = "timed_out"
          /\ Cardinality({i \in TransmissionsOf(id) :
                             wire[i].state = "timed_out"}) = max_retries
                => main_task.pc = "exit"

\* C25 witness: max_retries attempts for one message have timed out and
\* main() has exited
C25_Witness ==
    /\ main_task.pc = "exit"
    /\ \E id \in IdsOnWire :
          /\ Cardinality(TransmissionsOf(id)) = max_retries
          /\ \A i \in TransmissionsOf(id) : wire[i].state = "timed_out"

(* ---------------------------------------------------- heartbeat: claims *)
\* the number of Heartbeat calls on the wire
HeartbeatsSent ==
    Cardinality({i \in DOMAIN wire : IsCallOf(i, "Heartbeat")})

\* C26: every Heartbeat the station has sent is eventually followed by
\* another one unless the connection closes, whatever the charging session
\* does in the meantime.
C26_HeartbeatRecurs ==
    \A n \in 1..(LiveHeartbeats - 1) :
        [](HeartbeatsSent = n => <>(HeartbeatsSent > n \/ ws # "open"))

\* C26 witness: a second Heartbeat has followed the first on the open
\* connection while a transaction is in progress
C26_Witness ==
    /\ HeartbeatsSent = 2
    /\ ws = "open"
    /\ charging_state = "Charging"

(* ----------------------------------------------------- teardown: claims *)
\* run() has ended: normally, or by an exception that reached it
SessionEnded == session.pc \in {"done", "exit"}

C28_UnavailableWhileDisconnected ==
    cp_ws = "closed" =>
        \A c \in ConnectorIds : connectors[c].status = "Unavailable"

\* the step is the CSMS handling a BootNotification Call: the frame is a
\* well-formed Call and handle_boot_notification ran for it
BootHandled ==
    /\ connections' = connections
    /\ <<charging_stations, exchange>>' # <<charging_stations, exchange>>
    /\ exchange'.handler = "handle_boot_notification"
    /\ WellFormedCall(exchange'.message)

StatusHandled(i) ==
    /\ i \in 1..Len(replies)
    /\ IsCallOf(i, "StatusNotification")

\* the status the i-th frame carries: simple_charge_point.py:64-69 sends it
\* as connectorStatus, charging_simulator.py:74-78 as status
CarriedStatus(i) ==
    IF "connectorStatus" \in DOMAIN PayloadOf(i)
    THEN PayloadOf(i).connectorStatus
    ELSE PayloadOf(i).status

\* the i-th frame is the most recent StatusNotification for its connector
\* among those the CSMS has handled
MostRecentStatus(i) ==
    /\ StatusHandled(i)
    /\ ~\E j \in (i + 1)..Len(replies) :
          /\ StatusHandled(j)
          /\ PayloadOf(j).connectorId = PayloadOf(i).connectorId

\* C30: while the station's connection is served, the status the CSMS
\* records for a connector is the status carried by the most recent
\* StatusNotification the CSMS has handled for that connector, whatever
\* other calls were handled before or after it.
C30_RecordedStatus ==
    StationWebsocket \in connections =>
        \A i \in DOMAIN wire :
            MostRecentStatus(i) =>
                LET id == StationIdOf(StationWebsocket)
                    c  == PayloadOf(i).connectorId
                IN  /\ id \in DOMAIN charging_stations
                    /\ "connectors" \in DOMAIN charging_stations[id]
                    /\ c \in DOMAIN charging_stations[id]["connectors"]
                    /\ charging_stations[id]["connectors"][c].status =
                          CarriedStatus(i)

(* ------------------------------------------- the CSMS's registry: claims *)
\* the step is the simple CSMS handling a well-formed Call with the handler
HandledBy(handler) ==
    /\ connections' = connections
    /\ <<charging_stations, exchange>>' # <<charging_stations, exchange>>
    /\ exchange'.handler = handler
    /\ WellFormedCall(exchange'.message)

\* the log the simple CSMS holds for the station under the key: all it
\* holds for a station is the station's dict in charging_stations
LogOf(stations, id, key) ==
    IF id \in DOMAIN stations /\ key \in DOMAIN stations[id]
    THEN stations[id][key]
    ELSE <<>>

\* C31: every TransactionEvent Call the CSMS handles is answered with a
\* Result carrying idTokenInfo and adds exactly one entry to the station's
\* transaction log, and no step of the connection removes an entry from
\* that log.
C31_TransactionLogged ==
    [][LET id == StationIdOf(exchange'.websocket)
       IN  /\ HandledBy("handle_transaction_event") =>
                 /\ IsResultFor(exchange'.sent[1], exchange'.message)
                 /\ "idTokenInfo" \in
                       DOMAIN FramePayload(exchange'.sent[1]).v
                 /\ Len(LogOf(charging_stations', id, "transactions")) =
                       Len(LogOf(charging_stations, id, "transactions")) + 1
           /\ connections' = connections =>
                 \A s \in DOMAIN charging_stations :
                     Len(LogOf(charging_stations', s, "transactions")) >=
                        Len(LogOf(charging_stations, s, "transactions"))]_vars

\* the metering log the ocpp-library CSMS holds for the station
MeterLog == LogOf(server_charging_stations, server_id, "meter_values")

\* C32: every MeterValues Call the CSMS handles adds exactly one entry to
\* the station's metering log, and no Call handled later, a repeated
\* BootNotification included, removes an entry: the log before a step is a
\* prefix of the log after it.
C32_MeteringLogKept ==
    [][/\ ServerMeterValues => Len(MeterLog') = Len(MeterLog) + 1
       /\ Len(MeterLog') >= Len(MeterLog)
       /\ SubSeq(MeterLog', 1, Len(MeterLog)) = MeterLog]_vars

\* the websockets of the station that the CSMS is serving
ServedFor(id) == {w \in connections : StationIdOf(w) = id}

\* C33: the station's record is in the registry as soon as its connection
\* is opened; the step that ends a connection, however it ends, leaves
\* neither that websocket in connections nor a record under its station
\* id; and whenever no connection of a station is being served, the registry
\* holds no record for it.
C33_RegistryFollowsConnection ==
    /\ [](\A w \in ConnectionIds :
             ServedFor(StationIdOf(w)) = {}
                => StationIdOf(w) \notin DOMAIN charging_stations)
    /\ [][\A w \in ConnectionIds :
             /\ (w \notin connections /\ w \in connections')
                   => StationIdOf(w) \in DOMAIN charging_stations'
             /\ (w \in connections /\ w \notin connections')
                   => StationIdOf(w) \notin DOMAIN charging_stations']_vars

\* every connection has ended after a BootNotification was accepted and
\* had replaced the record made at connection time
C33_Witness ==
    /\ connections = {}
    /\ charging_stations = <<>>
    /\ exchange.handler = "handle_boot_notification"
    /\ WellFormedCall(exchange.message)

(* ------------------------------------- the charge point's records: claims *)
\* the tasks created to send the event for the transaction and not yet run
Queued(event, tx) ==
    {n \in DOMAIN tasks : tasks[n].event = event /\ tasks[n].tx = tx}

\* the transaction's stop fields have been written
Stopped(tx) == transactions[tx].stop_time # -1

\* C34: for each transaction at most one TransactionEvent(Ended) is emitted
\* (sent, or handed to a task that will send it), and once the
\* transaction's stop_time and meter_stop are set no RequestStopTransaction
\* changes them.
C34_EndedOnce ==
    /\ [](\A tx \in DOMAIN transactions :
             Cardinality(Queued("Ended", tx))
                + (IF Sent("Ended", tx) THEN 1 ELSE 0) <= 1)
    /\ [][\A tx \in DOMAIN transactions :
             (Stopped(tx) /\ reply'.op = "stop") =>
                 /\ transactions'[tx].stop_time = transactions[tx].stop_time
                 /\ transactions'[tx].meter_stop =
                       transactions[tx].meter_stop]_vars

\* C35: whenever the metering task sends MeterValues for a connector, the
\* TransactionEvent(Started) of the connector's transaction has already
\* been sent.
C35_StartedBeforeMeterValues ==
    [][\A c \in ConnectorIds :
          EmitsMeterValues(c) =>
              Sent("Started", connectors[c].transaction_id)]_vars

\* C36: while a websocket is being served, the registry holds a record
\* for its station id, also when another websocket with the same station
\* id has closed in the meantime.
C36_RecordWhileOpen ==
    \A w \in connections : StationIdOf(w) \in DOMAIN charging_stations

\* C37: a connector's transaction id is unset exactly when its status is
\* Available, and a transaction id that is set names a record of the
\* transactions table that belongs to that connector and has no stop time.
C37_ConnectorMatchesTransaction ==
    \A c \in ConnectorIds :
        /\ connectors[c].transaction_id = NoTx
              <=> connectors[c].status = "Available"
        /\ connectors[c].transaction_id # NoTx =>
              /\ connectors[c].transaction_id \in DOMAIN transactions
              /\ transactions[connectors[c].transaction_id].connector_id = c
              /\ ~Stopped(connectors[c].transaction_id)

\* connector 1 has been freed by the stop of an earlier transaction while
\* the record of the transaction it was running has no stop time, and
\* connector 2 is running a transaction
C37_Witness ==
    /\ connectors[1].status = "Available"
    /\ \E tx \in DOMAIN transactions :
          transactions[tx].connector_id = 1 /\ ~Stopped(tx)
    /\ \E tx \in DOMAIN transactions :
          transactions[tx].connector_id = 1 /\ Stopped(tx)
    /\ connectors[2].status = "Occupied"
    /\ connectors[2].transaction_id \in DOMAIN transactions

\* C38: the transaction id allocated by an accepted start is one that no
\* earlier transaction has used: no record is stored under it yet, so the
\* start overwrites no record.
C38_FreshTransactionId ==
    [][Answered("start", "Accepted") =>
          reply'.transaction_id \notin DOMAIN transactions]_vars

(* ---------------------------------------- one reply for each frame: claims *)
\* the frame is a reply [3, id, payload] to the text: it carries the text's
\* identifier, or "error" in its place
ReplyTo(frame, message) ==
    /\ frame.t = "list"
    /\ Len(frame.v) = 3
    /\ FrameType(frame) = JInt(3)
    /\ \/ FrameId(frame) = JStr("error")
       \/ /\ message.t = "list"
          /\ Len(message.v) >= 3
          /\ FrameId(frame) = FrameId(message)

\* C39: for every text the simple CSMS receives on a connection, whatever
\* it is, the CSMS sends exactly one frame, a reply to that text, before it
\* takes the next text of the connection: replies go out in the order the
\* texts came in.
C39_OneReplyPerFrame ==
    exchange # NoExchange =>
        /\ Len(exchange.sent) = 1
        /\ ReplyTo(exchange.sent[1], exchange.message)

\* a Result received by the CSMS has been answered with one frame, after a
\* BootNotification was accepted on the connection
C39_Witness ==
    /\ IsResponseFrame(exchange.message)
    /\ Len(exchange.sent) = 1
    /\ StationIdOf(exchange.websocket) \in DOMAIN charging_stations
    /\ ~CountsMessages(charging_stations, StationIdOf(exchange.websocket))

(* ------------------------------------ the energy an event carries: claims *)
\* the step is a task sending the request
SendsRequest(request) ==
    /\ tasks # <<>>
    /\ tasks' = Tail(Scheduled(tasks))
    /\ request = TransactionEventRequest(Head(Scheduled(tasks)))

\* C40: the energy value carried by a transaction's
\* TransactionEvent(Started) is the transaction's recorded meter_start, and
\* the value carried by its TransactionEvent(Ended) is its recorded
\* meter_stop, whenever the metering task runs.
C40_EventCarriesRecordedEnergy ==
    [][\A n \in DOMAIN tasks :
          LET request == TransactionEventRequest(tasks[n])
          IN  SendsRequest(request) =>
                 /\ request.event = "Started" =>
                       request.energy = transactions[request.tx].meter_start
                 /\ request.event = "Ended" =>
                       request.energy =
                          transactions[request.tx].meter_stop]_vars

====
